---- MODULE Spec2Model ----
(***************************************************************************)
(* Model of src/ide.py: a sequential script that loads a table of student  *)
(* records, removes duplicate rows, fills missing numeric cells with the   *)
(* column median, derives an encoded analysis copy, computes grouped       *)
(* aggregates, writes six charts and finally exports the cleaned table.    *)
(*                                                                         *)
(* Representation.                                                         *)
(*  - A cell is << >> for a missing value (NaN), <<v>> for the number v    *)
(*    and <<"str", s>> for the text s.                                     *)
(*  - Numeric values are integers in quarter units (Q(5) is 5.0), so that  *)
(*    the mean of two middle values of a median stays an integer.          *)
(*  - A frame is [columns, rows]: the ordered column names and the rows,   *)
(*    each row a record over the columns.                                  *)
(*  - DataFrames are objects: heap is the sequence of frames allocated so  *)
(*    far, df and df_analysis are references (indexes) into it.  An        *)
(*    operation of pandas that returns a new frame allocates; a column     *)
(*    assignment writes in place.                                          *)
(*  - A mean is << >> (NaN, nothing to average) or <<sum, count>>.         *)
(***************************************************************************)
EXTENDS Integers, Sequences, FiniteSets, TLC

VARIABLES
    url_data,          \* the CSV resource behind url
    pc,                \* the statement the script is at
    failure,           \* "" or the exception that ended the script at pc
    heap,              \* the DataFrame objects allocated so far
    df,                \* reference of df (0: not yet bound)
    df_analysis,       \* reference of df_analysis (0: not yet bound)
    stress_analysis,   \* CGPA aggregates by Stress_Level
    extra_analysis,    \* CGPA aggregates by Extracurricular
    sleep_insight,     \* mean CGPA per sleep bucket
    median_screen,     \* median Screen_Time (a cell)
    low_screen_cgpa,   \* mean CGPA of the rows with Screen_Time <= median
    high_screen_cgpa,  \* mean CGPA of the rows with Screen_Time > median
    files,             \* the output files written so far, in order
    exported_csv       \* the content of cleaned_student_data.csv

vars == <<url_data, pc, failure, heap, df, df_analysis, stress_analysis,
          extra_analysis, sleep_insight, median_screen, low_screen_cgpa,
          high_screen_cgpa, files, exported_csv>>

-----------------------------------------------------------------------------
(* Cells and numbers *)

NaN == << >>

Q(x) == 4 * x

IsNull(cell) == cell = NaN

Val(cell) == cell[1]

(* A text cell <<"str", s>> and its text. *)
Label(s) == <<"str", s>>

Text(cell) == cell[2]

-----------------------------------------------------------------------------
(* Schema *)

LoadedColumns ==
    <<"Student_ID", "Hours_Study", "Sleep_Hours", "Screen_Time",
      "Attendance", "CGPA", "Extracurricular", "Stress_Level">>

numerical_cols ==
    <<"Hours_Study", "Sleep_Hours", "Screen_Time", "Attendance", "CGPA">>

Range(s) == {s[i] : i \in DOMAIN s}

Row(id, hs, sl, sc, at, cg, ex, st) ==
    [Student_ID |-> id, Hours_Study |-> hs, Sleep_Hours |-> sl,
     Screen_Time |-> sc, Attendance |-> at, CGPA |-> cg,
     Extracurricular |-> ex, Stress_Level |-> st]

(* pd.read_csv: the columns of the resource and its rows in file order. *)
ReadCsv(data) == [columns |-> LoadedColumns, rows |-> data]

(* frame[col] as the sequence of its cells. *)
Column(frame, col) == [i \in DOMAIN frame.rows |-> frame.rows[i][col]]

-----------------------------------------------------------------------------
(* Series helpers *)

RECURSIVE DropNa(_)
DropNa(cells) ==
    IF cells = << >> THEN << >>
    ELSE IF IsNull(Head(cells)) THEN DropNa(Tail(cells))
    ELSE <<Val(Head(cells))>> \o DropNa(Tail(cells))

RECURSIVE SumSeq(_)
SumSeq(s) == IF s = << >> THEN 0 ELSE Head(s) + SumSeq(Tail(s))

RECURSIVE Insert(_, _)
Insert(x, sorted) ==
    IF sorted = << >> THEN <<x>>
    ELSE IF x <= Head(sorted) THEN <<x>> \o sorted
    ELSE <<Head(sorted)>> \o Insert(x, Tail(sorted))

RECURSIVE SortValues(_)
SortValues(s) ==
    IF s = << >> THEN << >> ELSE Insert(Head(s), SortValues(Tail(s)))

(* Series.median() without the mean of the two middle values. *)
MedianLowerMiddle(cells) ==
    LET v == SortValues(DropNa(cells))
        n == Len(v)
    IN  IF n = 0 THEN NaN ELSE <<v[(n + 1) \div 2]>>

(* Series.median(): missing values skipped; the middle value of the sorted  *)
(* values, or the mean of the two middle values; NaN when nothing is left.  *)
Median(cells) ==
    LET v == SortValues(DropNa(cells))
        n == Len(v)
    IN  IF n = 0 THEN NaN
        ELSE IF n % 2 = 1 THEN <<v[(n + 1) \div 2]>>
        ELSE <<(v[n \div 2] + v[n \div 2 + 1]) \div 2>>

(* Series.mean(): missing values skipped; NaN when nothing is left. *)
Mean(cells) ==
    LET v == DropNa(cells)
    IN  IF v = << >> THEN NaN ELSE <<SumSeq(v), Len(v)>>

(* Series.isnull().sum() *)
NullCount(cells) == Cardinality({i \in DOMAIN cells : IsNull(cells[i])})

(* Series.fillna(value): a NaN fill value fills nothing. *)
FillNa(cells, value) ==
    [i \in DOMAIN cells |-> IF IsNull(cells[i]) THEN value ELSE cells[i]]

(* frame[col] = cells : the column is replaced, row by row. *)
SetColumn(frame, col, cells) ==
    [frame EXCEPT !.rows =
        [i \in DOMAIN frame.rows |-> [frame.rows[i] EXCEPT ![col] = cells[i]]]]

-----------------------------------------------------------------------------
(* Step 2: preprocessing *)

(* DataFrame.drop_duplicates(): keeps the first of the rows equal in every  *)
(* column (missing values compare equal), in order.                        *)
RECURSIVE KeepFirst(_, _)
KeepFirst(rows, kept) ==
    IF rows = << >> THEN kept
    ELSE IF Head(rows) \in Range(kept) THEN KeepFirst(Tail(rows), kept)
    ELSE KeepFirst(Tail(rows), Append(kept, Head(rows)))

DropDuplicates(frame) == [frame EXCEPT !.rows = KeepFirst(frame.rows, << >>)]

(* One turn of the loop over numerical_cols. *)
FillColumn(frame, col) ==
    IF NullCount(Column(frame, col)) > 0
    THEN SetColumn(frame, col,
                   FillNa(Column(frame, col), Median(Column(frame, col))))
    ELSE frame

RECURSIVE FillLoop(_, _)
FillLoop(frame, k) ==
    IF k > Len(numerical_cols) THEN frame
    ELSE FillLoop(FillColumn(frame, numerical_cols[k]), k + 1)

FillNumeric(frame) == FillLoop(frame, 1)

(* The cleaning step: duplicate removal, then the median fill. *)
Clean(frame) == FillNumeric(DropDuplicates(frame))

(* Series.map(mapping): a label outside the mapping, or a missing one,     *)
(* becomes NaN.                                                             *)
MapCell(cell, mapping) ==
    IF IsNull(cell) THEN NaN
    ELSE IF Text(cell) \in DOMAIN mapping THEN <<mapping[Text(cell)]>>
    ELSE NaN

MapColumn(cells, mapping) ==
    [i \in DOMAIN cells |-> MapCell(cells[i], mapping)]

ExtracurricularMapSwapped == [Yes |-> 0, No |-> 1]

ExtracurricularMap == [Yes |-> 1, No |-> 0]

StressLevelMap == [Low |-> 0, Medium |-> 1, High |-> 2]

(* The two column assignments of lines 50-51, in place. *)
EncodeCategories(frame) ==
    LET f1 == SetColumn(frame, "Extracurricular",
                  MapColumn(Column(frame, "Extracurricular"),
                            ExtracurricularMap))
    IN  SetColumn(f1, "Stress_Level",
                  MapColumn(Column(f1, "Stress_Level"), StressLevelMap))

(* DataFrame.drop(col, axis=1): a new frame without the column. *)
DropColumn(frame, col) ==
    [columns |-> SelectSeq(frame.columns, LAMBDA c : c # col),
     rows |-> [i \in DOMAIN frame.rows |->
                 [c \in (DOMAIN frame.rows[i]) \ {col} |-> frame.rows[i][c]]]]

(* frame[col] = cells for a column the frame does not have yet. *)
AddColumn(frame, col, cells) ==
    [columns |-> Append(frame.columns, col),
     rows |-> [i \in DOMAIN frame.rows |->
                 [c \in (DOMAIN frame.rows[i]) \cup {col} |->
                     IF c = col THEN cells[i] ELSE frame.rows[i][c]]]]

-----------------------------------------------------------------------------
(* Step 3: grouped aggregates *)

(* The rows of the frame whose key is the given cell. *)
GroupRows(frame, key, cell) ==
    SelectSeq(frame.rows, LAMBDA r : r[key] = cell)

(* groupby(key)['CGPA'].agg(['mean', 'count', 'std']): one group per value  *)
(* of the key that occurs; the rows with a missing key are in no group.    *)
(* (std is not modelled; the rounding to two decimals is left to the       *)
(* <<sum, count>> form of the mean.)                                       *)
GroupByCgpa(frame, key) ==
    LET keys == {Val(frame.rows[i][key]) :
                    i \in {j \in DOMAIN frame.rows :
                              ~IsNull(frame.rows[j][key])}}
    IN  [k \in keys |->
            LET cg == [i \in DOMAIN GroupRows(frame, key, <<k>>) |->
                          GroupRows(frame, key, <<k>>)[i].CGPA]
            IN  [mean |-> Mean(cg), count |-> Len(DropNa(cg))]]

(* aggregate.loc[k, 'mean'] for every k looked up: KeyError if one is not  *)
(* a group.                                                                 *)
CanLookup(aggregate, ks) == ks \subseteq DOMAIN aggregate

-----------------------------------------------------------------------------
(* Step 4: insights *)

SleepBins == <<Q(0), Q(6), Q(8), Q(24)>>

SleepLabels == <<"<6h", "6-8h", ">8h">>

(* pd.cut with right=False: bucket i holds bins[i] <= v < bins[i+1]. *)
CutLeftClosed(cell, bins, labels) ==
    IF IsNull(cell) THEN NaN
    ELSE LET hit == {i \in DOMAIN labels :
                        bins[i] <= Val(cell) /\ Val(cell) < bins[i + 1]}
         IN  IF hit = {} THEN NaN ELSE Label(labels[CHOOSE i \in hit : TRUE])

(* pd.cut(cells, bins, labels): bucket i holds bins[i] < v <= bins[i+1];   *)
(* a value in no interval, or a missing one, gets NaN.                     *)
Cut(cell, bins, labels) ==
    IF IsNull(cell) THEN NaN
    ELSE LET hit == {i \in DOMAIN labels :
                        bins[i] < Val(cell) /\ Val(cell) <= bins[i + 1]}
         IN  IF hit = {} THEN NaN ELSE Label(labels[CHOOSE i \in hit : TRUE])

CutColumn(cells, bins, labels) ==
    [i \in DOMAIN cells |-> Cut(cells[i], bins, labels)]

(* groupby('Sleep_Bin', observed=False)['CGPA'].mean(): every label is a   *)
(* group, an empty one has mean NaN.                                       *)
SleepInsight(frame) ==
    [b \in Range(SleepLabels) |->
        LET g == GroupRows(frame, "Sleep_Bin", Label(b))
        IN  Mean([i \in DOMAIN g |-> g[i].CGPA])]

(* frame[frame['Screen_Time'] > m] and frame[frame['Screen_Time'] <= m]:   *)
(* a comparison with a missing value on either side is false.              *)
HighScreenRows(frame, m) ==
    {i \in DOMAIN frame.rows :
        /\ ~IsNull(m)
        /\ ~IsNull(frame.rows[i].Screen_Time)
        /\ Val(frame.rows[i].Screen_Time) > Val(m)}

(* The low group taken strictly below the median. *)
LowScreenRowsStrict(frame, m) ==
    {i \in DOMAIN frame.rows :
        /\ ~IsNull(m)
        /\ ~IsNull(frame.rows[i].Screen_Time)
        /\ Val(frame.rows[i].Screen_Time) < Val(m)}

LowScreenRows(frame, m) ==
    {i \in DOMAIN frame.rows :
        /\ ~IsNull(m)
        /\ ~IsNull(frame.rows[i].Screen_Time)
        /\ Val(frame.rows[i].Screen_Time) <= Val(m)}

(* frame[mask]['CGPA'] : the CGPA cells of the selected rows, in order. *)
RECURSIVE CgpaOf(_, _, _)
CgpaOf(rows, idx, i) ==
    IF i > Len(rows) THEN << >>
    ELSE IF i \in idx THEN <<rows[i].CGPA>> \o CgpaOf(rows, idx, i + 1)
    ELSE CgpaOf(rows, idx, i + 1)

MeanCgpaOf(frame, idx) == Mean(CgpaOf(frame.rows, idx, 1))

-----------------------------------------------------------------------------
(* Objects *)

(* df_analysis = df : no copy, both names are the same object. *)
FrameAlias(h, ref) == [heap |-> h, ref |-> ref]

(* DataFrame.copy(): a new object with the same content. *)
FrameCopy(h, ref) == [heap |-> Append(h, h[ref]), ref |-> Len(h) + 1]

(* DataFrame.to_csv(path, index=False): a header of the column names and   *)
(* one line per row, the cells in column order; no index column.           *)
ToCsv(frame) ==
    [header |-> frame.columns,
     lines |-> [i \in DOMAIN frame.rows |->
                  [j \in DOMAIN frame.columns |->
                      frame.rows[i][frame.columns[j]]]]]

OutputOrder ==
    <<"insight1_study_corr.png", "insight2_sleep_bins.png",
      "insight3_screen_time.png", "insight4_attendance_corr.png",
      "insight5_stress_level.png", "insight6_extracurricular.png",
      "cleaned_student_data.csv">>

Steps ==
    <<"read_csv", "drop_duplicates", "fillna", "df_analysis", "eda",
      "insight1", "insight2", "insight3", "insight4", "insight5",
      "insight6", "to_csv", "done">>

StepNo(p) == CHOOSE i \in DOMAIN Steps : Steps[i] = p

-----------------------------------------------------------------------------
(* Inputs *)

SeqsUpTo(S, n) == UNION {[1 .. k -> S] : k \in 0 .. n}

MaxRows == 3

Students == 1 .. 3

ExtraOf(s) == <<"Yes", "No">>[((s - 1) % 2) + 1]

StressOf(s) == <<"Low", "Medium", "High">>[((s - 1) % 3) + 1]

(* Records of three students with some numeric cells missing; the same     *)
(* record may occur more than once.                                        *)
SleepOf(s) == IF s = 3 THEN {NaN, <<Q(7)>>} ELSE {<<Q(7)>>}

CleanRows ==
    UNION {{Row(<<s>>, hs, sl, <<Q(2 + s)>>, <<Q(80)>>, <<Q(1 + s)>>,
                Label(ExtraOf(s)), Label(StressOf(s))) :
               hs \in {NaN, <<Q(4)>>, <<Q(5)>>}, sl \in SleepOf(s)} :
           s \in Students}

CleanInputs == SeqsUpTo(CleanRows, MaxRows)

(* Records, one per student in file order, whose numeric cells are all     *)
(* present; the student at position i has the labels ExtraOf(i) and        *)
(* StressOf(i) unless stated otherwise.                                    *)
StudentRow(i, sl, sc, ex, st) ==
    Row(<<i>>, <<Q(4)>>, sl, sc, <<Q(80)>>, <<Q(1 + i)>>, ex, st)

(* Categorical labels as found in a file: the expected ones, a label that  *)
(* is not expected, and a missing one.                                     *)
ExtraLabels == {Label("Yes"), Label("No"), Label("Maybe"), NaN}

StressLabels ==
    {Label("Low"), Label("Medium"), Label("High"), Label("Severe")}

LabelInputs ==
    {[i \in DOMAIN l |->
         StudentRow(i, <<Q(7)>>, <<Q(2 + i)>>, l[i][1], l[i][2])] :
        l \in SeqsUpTo(ExtraLabels \X StressLabels, MaxRows)}

(* Sleep_Hours on and around the bin edges, out of range, and missing. *)
SleepValues ==
    {NaN, <<Q(0)>>, <<Q(5)>>, <<Q(6)>>, <<Q(7)>>, <<Q(8)>>, <<Q(9)>>,
     <<Q(24)>>, <<Q(25)>>}

SleepInputs ==
    {[i \in DOMAIN v |->
         StudentRow(i, v[i], <<Q(2 + i)>>, Label(ExtraOf(i)),
                    Label(StressOf(i)))] :
        v \in SeqsUpTo(SleepValues, MaxRows)}

(* Screen_Time values 1..5 or missing; the five-row table 1,2,3,4,5 is     *)
(* always among the inputs.                                                *)
ScreenValues == {NaN} \cup {<<Q(x)>> : x \in 1 .. 5}

ScreenInputs ==
    {[i \in DOMAIN v |->
         StudentRow(i, <<Q(7)>>, v[i], Label(ExtraOf(i)),
                    Label(StressOf(i)))] :
        v \in SeqsUpTo(ScreenValues, MaxRows)
                \cup {[i \in 1 .. 5 |-> <<Q(i)>>]}}

-----------------------------------------------------------------------------
(* The script *)

InitWith(inputs) ==
    /\ url_data \in inputs
    /\ pc = "read_csv"
    /\ failure = ""
    /\ heap = << >>
    /\ df = 0
    /\ df_analysis = 0
    /\ stress_analysis = << >>
    /\ extra_analysis = << >>
    /\ sleep_insight = << >>
    /\ median_screen = NaN
    /\ low_screen_cgpa = NaN
    /\ high_screen_cgpa = NaN
    /\ files = << >>
    /\ exported_csv = << >>

Init == InitWith(CleanInputs)

At(p) == pc = p /\ failure = ""

Raise(exception) ==
    /\ failure' = exception
    /\ UNCHANGED <<url_data, exported_csv, pc, heap, df, df_analysis,
                   stress_analysis, extra_analysis, sleep_insight,
                   median_screen, low_screen_cgpa, high_screen_cgpa, files>>

(* A write whose failure is swallowed: the script goes on. *)
WriteFileIgnoringFailure(name, written, next) ==
    /\ files' = IF written THEN Append(files, name) ELSE files
    /\ pc' = next
    /\ failure' = failure

(* plt.savefig(name) / to_csv(name): the file is written, or the write     *)
(* fails and the script ends there.                                        *)
WriteFile(name, written, next) ==
    IF written
    THEN /\ files' = Append(files, name)
         /\ pc' = next
         /\ failure' = failure
    ELSE /\ files' = files
         /\ pc' = pc
         /\ failure' = "OSError"

(* line 8: df = pd.read_csv(url); the fetch may fail. *)
Load ==
    /\ At("read_csv")
    /\ \E fetched \in BOOLEAN :
          IF fetched
          THEN /\ heap' = <<ReadCsv(url_data)>>
               /\ df' = 1
               /\ pc' = "drop_duplicates"
               /\ failure' = failure
          ELSE /\ failure' = "URLError"
               /\ UNCHANGED <<heap, df, pc>>
    /\ UNCHANGED <<url_data, exported_csv, df_analysis, stress_analysis,
                   extra_analysis, sleep_insight, median_screen,
                   low_screen_cgpa, high_screen_cgpa, files>>

(* line 34: df = df.drop_duplicates() *)
DropDuplicatesStep ==
    /\ At("drop_duplicates")
    /\ heap' = Append(heap, DropDuplicates(heap[df]))
    /\ df' = Len(heap) + 1
    /\ pc' = "fillna"
    /\ UNCHANGED <<url_data, exported_csv, failure, df_analysis,
                   stress_analysis, extra_analysis, sleep_insight,
                   median_screen, low_screen_cgpa, high_screen_cgpa, files>>

(* lines 38-43: the loop over numerical_cols, writing df's columns. *)
FillMissing ==
    /\ At("fillna")
    /\ heap' = [heap EXCEPT ![df] = FillNumeric(@)]
    /\ pc' = "df_analysis"
    /\ UNCHANGED <<url_data, exported_csv, failure, df, df_analysis,
                   stress_analysis, extra_analysis, sleep_insight,
                   median_screen, low_screen_cgpa, high_screen_cgpa, files>>

(* lines 49-53: copy, encode the copy in place, drop Student_ID. *)
BuildAnalysis ==
    /\ At("df_analysis")
    /\ LET c  == FrameCopy(heap, df)
           h1 == [c.heap EXCEPT ![c.ref] = EncodeCategories(@)]
           h2 == Append(h1, DropColumn(h1[c.ref], "Student_ID"))
       IN  /\ heap' = h2
           /\ df_analysis' = Len(h2)
    /\ pc' = "eda"
    /\ UNCHANGED <<url_data, exported_csv, failure, df, stress_analysis,
                   extra_analysis, sleep_insight, median_screen,
                   low_screen_cgpa, high_screen_cgpa, files>>

(* lines 59-74: correlations (not modelled), grouped aggregates. *)
Analyze ==
    /\ At("eda")
    /\ stress_analysis' = GroupByCgpa(heap[df_analysis], "Stress_Level")
    /\ extra_analysis' = GroupByCgpa(heap[df_analysis], "Extracurricular")
    /\ pc' = "insight1"
    /\ UNCHANGED <<url_data, exported_csv, failure, heap, df, df_analysis,
                   sleep_insight, median_screen, low_screen_cgpa,
                   high_screen_cgpa, files>>

(* lines 81-90 *)
Insight1 ==
    /\ At("insight1")
    /\ \E written \in BOOLEAN :
          WriteFile("insight1_study_corr.png", written, "insight2")
    /\ UNCHANGED <<url_data, exported_csv, heap, df, df_analysis,
                   stress_analysis, extra_analysis, sleep_insight,
                   median_screen, low_screen_cgpa, high_screen_cgpa>>

(* lines 93-104: Sleep_Bin is added to df_analysis in place. *)
Insight2 ==
    /\ At("insight2")
    /\ LET binned == AddColumn(heap[df_analysis], "Sleep_Bin",
                        CutColumn(Column(heap[df_analysis], "Sleep_Hours"),
                                  SleepBins, SleepLabels))
       IN  /\ heap' = [heap EXCEPT ![df_analysis] = binned]
           /\ sleep_insight' = SleepInsight(binned)
    /\ \E written \in BOOLEAN :
          WriteFile("insight2_sleep_bins.png", written, "insight3")
    /\ UNCHANGED <<url_data, exported_csv, df, df_analysis, stress_analysis,
                   extra_analysis, median_screen, low_screen_cgpa,
                   high_screen_cgpa>>

(* lines 107-118 *)
Insight3 ==
    /\ At("insight3")
    /\ LET m == Median(Column(heap[df_analysis], "Screen_Time"))
       IN  /\ median_screen' = m
           /\ high_screen_cgpa' =
                 MeanCgpaOf(heap[df_analysis],
                            HighScreenRows(heap[df_analysis], m))
           /\ low_screen_cgpa' =
                 MeanCgpaOf(heap[df_analysis],
                            LowScreenRows(heap[df_analysis], m))
    /\ \E written \in BOOLEAN :
          WriteFile("insight3_screen_time.png", written, "insight4")
    /\ UNCHANGED <<url_data, exported_csv, heap, df, df_analysis,
                   stress_analysis, extra_analysis, sleep_insight>>

(* lines 121-130 *)
Insight4 ==
    /\ At("insight4")
    /\ \E written \in BOOLEAN :
          WriteFile("insight4_attendance_corr.png", written, "insight5")
    /\ UNCHANGED <<url_data, exported_csv, heap, df, df_analysis,
                   stress_analysis, extra_analysis, sleep_insight,
                   median_screen, low_screen_cgpa, high_screen_cgpa>>

(* lines 133-141: stress_analysis.loc[0], .loc[2], then .loc[0..2]. *)
Insight5 ==
    /\ At("insight5")
    /\ IF CanLookup(stress_analysis, {0, 1, 2})
       THEN /\ \E written \in BOOLEAN :
                  WriteFile("insight5_stress_level.png", written, "insight6")
            /\ UNCHANGED <<url_data, exported_csv, heap, df, df_analysis,
                           stress_analysis, extra_analysis, sleep_insight,
                           median_screen, low_screen_cgpa, high_screen_cgpa>>
       ELSE Raise("KeyError")

(* lines 144-153: extra_analysis.loc[1], .loc[0]. *)
Insight6 ==
    /\ At("insight6")
    /\ IF CanLookup(extra_analysis, {0, 1})
       THEN /\ \E written \in BOOLEAN :
                  WriteFile("insight6_extracurricular.png", written, "to_csv")
            /\ UNCHANGED <<url_data, exported_csv, heap, df, df_analysis,
                           stress_analysis, extra_analysis, sleep_insight,
                           median_screen, low_screen_cgpa, high_screen_cgpa>>
       ELSE Raise("KeyError")

(* line 159: df.to_csv('cleaned_student_data.csv', index=False) *)
Export ==
    /\ At("to_csv")
    /\ \E written \in BOOLEAN :
          /\ WriteFile("cleaned_student_data.csv", written, "done")
          /\ exported_csv' = IF written THEN ToCsv(heap[df])
                                        ELSE exported_csv
    /\ UNCHANGED <<url_data, heap, df, df_analysis, stress_analysis,
                   extra_analysis, sleep_insight, median_screen,
                   low_screen_cgpa, high_screen_cgpa>>

Next ==
    \/ Load
    \/ DropDuplicatesStep
    \/ FillMissing
    \/ BuildAnalysis
    \/ Analyze
    \/ Insight1
    \/ Insight2
    \/ Insight3
    \/ Insight4
    \/ Insight5
    \/ Insight6
    \/ Export

Spec == Init /\ [][Next]_vars

(* The same script on tables that vary in the categorical labels, in       *)
(* Sleep_Hours and in Screen_Time.                                         *)
InitLabels == InitWith(LabelInputs)

SpecLabels == InitLabels /\ [][Next]_vars

InitSleep == InitWith(SleepInputs)

SpecSleep == InitSleep /\ [][Next]_vars

InitScreen == InitWith(ScreenInputs)

SpecScreen == InitScreen /\ [][Next]_vars

-----------------------------------------------------------------------------
(* Properties *)

DF == heap[df]

VIEW == heap[df_analysis]

Reached(p) == StepNo(pc) >= StepNo(p)

(* The cleaning step (lines 34-43) is over. *)
Cleaned == Reached("df_analysis")

NoDuplicateRows(frame) ==
    \A i, j \in DOMAIN frame.rows : i # j => frame.rows[i] # frame.rows[j]

NoMissingNumeric(frame) ==
    \A i \in DOMAIN frame.rows :
        \A c \in Range(numerical_cols) : ~IsNull(frame.rows[i][c])

(* The loaded table after duplicate removal, before any fill. *)
Deduplicated == DropDuplicates(ReadCsv(url_data))

(* The median by ranks, without sorting: the k-th smallest value is the     *)
(* one with fewer than k values below it and at least k values not above.   *)
KthSmallest(cells, k) ==
    LET I == {i \in DOMAIN cells : ~IsNull(cells[i])}
    IN  CHOOSE v \in {Val(cells[i]) : i \in I} :
            /\ Cardinality({i \in I : Val(cells[i]) < v}) < k
            /\ Cardinality({i \in I : Val(cells[i]) <= v}) >= k

RankMedian(cells) ==
    LET n == Cardinality({i \in DOMAIN cells : ~IsNull(cells[i])})
    IN  IF n = 0 THEN NaN
        ELSE IF n % 2 = 1 THEN <<KthSmallest(cells, (n + 1) \div 2)>>
        ELSE <<(KthSmallest(cells, n \div 2)
                  + KthSmallest(cells, n \div 2 + 1)) \div 2>>

(* C1: after the cleaning step the Dataset has no two rows equal in every   *)
(* column and no missing value in the five numeric columns.                 *)
C1_CleanedHasNoDuplicateNoMissing ==
    Cleaned => NoDuplicateRows(DF) /\ NoMissingNumeric(DF)

(* C2: cleaning is idempotent: cleaning the cleaned Dataset once more       *)
(* removes no row and fills no value.                                       *)
C2_CleaningIdempotent ==
    Cleaned => Clean(DF) = DF

(* The scenario of C3: one duplicate row, one missing Hours_Study value,    *)
(* and the Hours_Study median is 5.0.                                       *)
C3_Scenario ==
    /\ Len(url_data) = Len(Deduplicated.rows) + 1
    /\ NullCount(Column(Deduplicated, "Hours_Study")) = 1
    /\ RankMedian(Column(Deduplicated, "Hours_Study")) = <<Q(5)>>

(* C3: after the cleaning step every cell of a numeric column that was      *)
(* missing after duplicate removal holds the median of that column's        *)
(* non-missing values after duplicate removal (it stays missing when the    *)
(* column has none), every other cell is unchanged, and no row is added or  *)
(* removed by the fill; in the scenario the duplicate is gone and the       *)
(* missing Hours_Study value is 5.0.                                        *)
C3_MedianFill ==
    Cleaned =>
        LET D == Deduplicated
            filled == DF
            med == [c \in Range(numerical_cols) |-> RankMedian(Column(D, c))]
        IN  /\ filled.columns = D.columns
            /\ Len(filled.rows) = Len(D.rows)
            /\ \A i \in DOMAIN D.rows :
                  \A c \in Range(LoadedColumns) :
                     IF c \in Range(numerical_cols) /\ IsNull(D.rows[i][c])
                     THEN filled.rows[i][c] = med[c]
                     ELSE filled.rows[i][c] = D.rows[i][c]
            /\ C3_Scenario =>
                  /\ Len(filled.rows) = Len(url_data) - 1
                  /\ \A i \in DOMAIN D.rows :
                        IsNull(D.rows[i].Hours_Study)
                           => filled.rows[i].Hours_Study = <<Q(5)>>

(* A cleaned Dataset of the scenario in which the row with the missing      *)
(* Hours_Study had its Sleep_Hours missing too, filled with the median 7.0. *)
C3_Witness ==
    /\ Cleaned
    /\ C3_Scenario
    /\ \E i \in DOMAIN Deduplicated.rows :
          /\ IsNull(Deduplicated.rows[i].Hours_Study)
          /\ IsNull(Deduplicated.rows[i].Sleep_Hours)
    /\ \E i \in DOMAIN DF.rows : DF.rows[i].Sleep_Hours = <<Q(7)>>

-----------------------------------------------------------------------------
(* Encoding *)

(* The analysis view exists (lines 49-53 are over). *)
Encoded == Reached("eda")

(* C4: in the analysis view a row labelled Yes / No has Extracurricular     *)
(* 1 / 0 and a row labelled Low / Medium / High has Stress_Level 0 / 1 / 2; *)
(* when all labels are well-formed the two columns hold only values of      *)
(* {0,1} and {0,1,2}; the view has no Student_ID column.                    *)
C4_EncodingOfWellFormedLabels ==
    Encoded =>
        /\ Len(VIEW.rows) = Len(DF.rows)
        /\ \A i \in DOMAIN DF.rows :
              LET ex == DF.rows[i].Extracurricular
                  st == DF.rows[i].Stress_Level
                  v  == VIEW.rows[i]
              IN  /\ ex = Label("Yes") => v.Extracurricular = <<1>>
                  /\ ex = Label("No") => v.Extracurricular = <<0>>
                  /\ st = Label("Low") => v.Stress_Level = <<0>>
                  /\ st = Label("Medium") => v.Stress_Level = <<1>>
                  /\ st = Label("High") => v.Stress_Level = <<2>>
        /\ (\A i \in DOMAIN DF.rows :
               /\ DF.rows[i].Extracurricular \in {Label("Yes"), Label("No")}
               /\ DF.rows[i].Stress_Level
                     \in {Label("Low"), Label("Medium"), Label("High")})
           => \A i \in DOMAIN VIEW.rows :
                 /\ VIEW.rows[i].Extracurricular \in {<<0>>, <<1>>}
                 /\ VIEW.rows[i].Stress_Level \in {<<0>>, <<1>>, <<2>>}
        /\ "Student_ID" \notin Range(VIEW.columns)
        /\ \A i \in DOMAIN VIEW.rows : "Student_ID" \notin DOMAIN VIEW.rows[i]

(* An analysis view of three well-formed rows that carry all five labels. *)
C4_Witness ==
    /\ Encoded
    /\ Len(DF.rows) = 3
    /\ {DF.rows[i].Extracurricular : i \in DOMAIN DF.rows}
          = {Label("Yes"), Label("No")}
    /\ {DF.rows[i].Stress_Level : i \in DOMAIN DF.rows}
          = {Label("Low"), Label("Medium"), Label("High")}

(* C5: once cleaned, the Dataset never changes again (building the view    *)
(* and adding Sleep_Bin to it leave it alone), and the exported file has    *)
(* exactly the loaded columns, one line per cleaned row, with the           *)
(* identifier, the original labels and the filled numeric values.           *)
C5_DatasetFrozenAndExported ==
    /\ [][Cleaned => heap'[df'] = heap[df]]_vars
    /\ [](pc = "done" =>
            LET D == Deduplicated
                cleaned == DF
                csv == exported_csv
            IN  /\ csv.header = LoadedColumns
                /\ Len(csv.lines) = Len(D.rows)
                /\ \A i \in DOMAIN D.rows :
                      \A j \in DOMAIN LoadedColumns :
                         LET c == LoadedColumns[j]
                         IN  IF c \in Range(numerical_cols)
                             THEN /\ csv.lines[i][j] = cleaned.rows[i][c]
                                  /\ ~IsNull(D.rows[i][c]) =>
                                        csv.lines[i][j] = D.rows[i][c]
                             ELSE csv.lines[i][j] = D.rows[i][c])

(* An export of three rows, one of which had its Hours_Study filled, after  *)
(* Sleep_Bin was added to the view.                                         *)
C5_Witness ==
    /\ pc = "done"
    /\ Len(exported_csv.lines) = 3
    /\ "Sleep_Bin" \in Range(VIEW.columns)
    /\ \E i \in DOMAIN Deduplicated.rows :
          /\ IsNull(Deduplicated.rows[i].Hours_Study)
          /\ ~IsNull(exported_csv.lines[i][2])

MappedExtra == {Label("Yes"), Label("No")}

MappedStress == {Label("Low"), Label("Medium"), Label("High")}

(* The table names two Extracurricular categories and three Stress_Level    *)
(* categories, and at least one of the names is not a mapped label: with    *)
(* mapped labels alone such a table has every group.                        *)
C6_UnexpectedLabels ==
    /\ Cardinality({r.Extracurricular : r \in Range(url_data)} \ {NaN}) = 2
    /\ Cardinality({r.Stress_Level : r \in Range(url_data)} \ {NaN}) = 3
    /\ \E r \in Range(url_data) :
          \/ r.Extracurricular \notin MappedExtra \cup {NaN}
          \/ r.Stress_Level \notin MappedStress \cup {NaN}

(* C6: a label outside the mapped ones gets a missing encoded value and     *)
(* does not make the script fail: no lookup of a group raises.              *)
C6_UnexpectedLabelsAreNoError ==
    (Encoded /\ C6_UnexpectedLabels) =>
        /\ \A i \in DOMAIN DF.rows :
              /\ DF.rows[i].Extracurricular \notin MappedExtra
                    => IsNull(VIEW.rows[i].Extracurricular)
              /\ DF.rows[i].Stress_Level \notin MappedStress
                    => IsNull(VIEW.rows[i].Stress_Level)
        /\ failure # "KeyError"

(* The output files of the steps before step number n. *)
OutputsBefore(n) ==
    LET k == n - StepNo("insight1")
    IN  SubSeq(OutputOrder, 1, IF k < 0 THEN 0 ELSE k)

(* C7: at every point, failed or not, the files written are exactly the     *)
(* outputs of the steps before the current one, in the fixed order; the     *)
(* CSV is there only after all six charts, and nothing is there after a     *)
(* failed fetch.                                                            *)
C7_OutputsInOrder ==
    /\ files = OutputsBefore(StepNo(pc))
    /\ failure = "URLError" => files = << >>
    /\ "cleaned_student_data.csv" \in Range(files)
          => SubSeq(files, 1, 6) = SubSeq(OutputOrder, 1, 6)
    /\ exported_csv # << >> <=> "cleaned_student_data.csv" \in Range(files)

(* The script ended at Insight 5 with the first four charts written. *)
C7_Witness ==
    /\ pc = "insight5"
    /\ failure \in {"KeyError", "OSError"}
    /\ Len(files) = 4

(* The aggregates exist (lines 64-70 are over). *)
Analyzed == Reached("insight1")

(* C8: for a Dataset with rows, the aggregates by Stress_Level have       *)
(* exactly the groups 0, 1, 2 and                                           *)
(* those by Extracurricular exactly the groups 0, 1, so no lookup of        *)
(* Insight 5 or Insight 6 fails.                                            *)
C8_AllGroupsPresent ==
    (Analyzed /\ DF.rows # << >>) =>
        /\ DOMAIN stress_analysis = {0, 1, 2}
        /\ DOMAIN extra_analysis = {0, 1}
        /\ failure # "KeyError"

-----------------------------------------------------------------------------
(* Insights 2 and 3 *)

(* Sleep_Bin was added to the analysis view (line 93 is over). *)
Binned == df_analysis # 0 /\ "Sleep_Bin" \in Range(VIEW.columns)

(* The bucket of the intervals (0,6], (6,8], (8,24], written out. *)
BucketOf(v) ==
    IF Q(0) < v /\ v <= Q(6) THEN Label("<6h")
    ELSE IF Q(6) < v /\ v <= Q(8) THEN Label("6-8h")
    ELSE IF Q(8) < v /\ v <= Q(24) THEN Label(">8h")
    ELSE NaN

(* The number of values a mean was taken over. *)
MeanCount(mean) == IF IsNull(mean) THEN 0 ELSE mean[2]

(* C9 as stated, for a Dataset without missing numeric values: every row    *)
(* of the analysis view is in exactly one of the three buckets, the one of  *)
(* its interval.                                                            *)
C9_EveryRowInOneBucket ==
    (Binned /\ NoMissingNumeric(DF)) =>
        \A i \in DOMAIN VIEW.rows :
            /\ VIEW.rows[i].Sleep_Bin
                  \in {Label("<6h"), Label("6-8h"), Label(">8h")}
            /\ ~IsNull(VIEW.rows[i].Sleep_Hours)
            /\ VIEW.rows[i].Sleep_Bin = BucketOf(Val(VIEW.rows[i].Sleep_Hours))

(* C9 as amended: a row whose Sleep_Hours is in (0,24] is in exactly the    *)
(* bucket of its interval (6 in "<6h", 8 in "6-8h", 24 in ">8h"; 5, 7, 9    *)
(* in "<6h", "6-8h", ">8h"); a row whose Sleep_Hours is 0 or less, above    *)
(* 24 or missing is in no bucket; each bucket's mean CGPA is taken over     *)
(* exactly the rows of that bucket.                                         *)
C9_RowsInRangeInOneBucket ==
    Binned =>
        /\ \A i \in DOMAIN VIEW.rows :
              LET sl == VIEW.rows[i].Sleep_Hours
                  b  == VIEW.rows[i].Sleep_Bin
              IN  /\ IsNull(sl) => IsNull(b)
                  /\ ~IsNull(sl) => b = BucketOf(Val(sl))
                  /\ sl = <<Q(5)>> => b = Label("<6h")
                  /\ sl = <<Q(6)>> => b = Label("<6h")
                  /\ sl = <<Q(7)>> => b = Label("6-8h")
                  /\ sl = <<Q(8)>> => b = Label("6-8h")
                  /\ sl = <<Q(9)>> => b = Label(">8h")
                  /\ sl = <<Q(24)>> => b = Label(">8h")
                  /\ (~IsNull(sl) /\ (Val(sl) <= Q(0) \/ Val(sl) > Q(24)))
                        => IsNull(b)
        /\ \A l \in Range(SleepLabels) :
              MeanCount(sleep_insight[l])
                 = Cardinality({i \in DOMAIN VIEW.rows :
                                   VIEW.rows[i].Sleep_Bin = Label(l)})

(* A view whose rows sleep 6, 8 and 24 hours, bucketed. *)
C9_Witness ==
    /\ Binned
    /\ Len(VIEW.rows) = 3
    /\ Column(VIEW, "Sleep_Hours") = <<<<Q(6)>>, <<Q(8)>>, <<Q(24)>>>>
    /\ Column(VIEW, "Sleep_Bin")
          = <<Label("<6h"), Label("6-8h"), Label(">8h")>>

(* Insight 3 computed its split (lines 107-109 are over). *)
Split == Reached("insight4")

LowGroup == LowScreenRows(VIEW, median_screen)

HighGroup == HighScreenRows(VIEW, median_screen)

(* The table 1,2,3,4,5 of the scenario. *)
C10_Scenario ==
    Column(ReadCsv(url_data), "Screen_Time") = [i \in 1 .. 5 |-> <<Q(i)>>]

====
